---- MODULE Spec2Model ----
(***************************************************************************)
(* A model of desdeo_problem/Problem.py: the three problem classes         *)
(* ScalarMOProblem, MOProblem and ScalarDataProblem, their constructors,   *)
(* their evaluate and evaluate_constraint_values methods, the dataset's    *)
(* get_variable_bounds, and the setters of the attributes a caller may     *)
(* assign.                                                                 *)
(*                                                                         *)
(* Objective and constraint functions are external collaborators; their    *)
(* values are modelled symbolically, as records naming the function and    *)
(* its arguments, so that the place every value ends up in is observable.  *)
(* numpy arrays are records [ndim, shape, data]; Optional values are       *)
(* None == <<>> and Some(x) == <<x>>.                                      *)
(*                                                                         *)
(* The inputs are those the type annotations admit: objectives are         *)
(* ScalarObjective or VectorObjective instances (a vector objective has    *)
(* arity 2 or more), variables is a list, a batch has at least one row,    *)
(* a stored matrix at least one column. A call is one action: it leaves    *)
(* its result in `outcome`, and Return hands the problem back to the       *)
(* caller for the next call.                                               *)
(*                                                                         *)
(* Spec and SpecData follow the construction and evaluation of the         *)
(* function problems and of the dataset problem over all their inputs;     *)
(* SpecDims the construction of a dataset problem from arrays of any       *)
(* number of axes; SpecCalls and SpecLife problems of all three classes,   *)
(* constructed from fewer arguments, through sequences of calls and, in    *)
(* SpecLife, of attribute assignments.                                     *)
(***************************************************************************)
EXTENDS Integers, Sequences, FiniteSets, TLC

\* ------------------------------------------------------------------ bounds
MaxObjs == 2
MaxArity == 2
MaxVars == 2
MaxCons == 2
MaxRefLen == 1
MaxCols == 2
MaxDataRows == 2
MaxDataVars == 1
MaxDataObjs == 2

\* The entries of decision vectors and of stored data.
Values == {0, 1}

\* The numbers of rows of an evaluated batch: one row, and several. Both evaluate
\* methods map the rows of a batch one by one, so two rows show whatever the
\* rows of a batch do to each other.
RowCounts == {1, 2}

\* The (lower, upper) bounds a Variable may carry.
BoundPairs == {b \in Values \X Values : b[1] <= b[2]}

\* ---------------------------------------------------------------- helpers
None == <<>>

Some(x) == <<x>>

IsNone(o) == o = <<>>

Get(o) == o[1]

Min2(a, b) == IF a < b THEN a ELSE b

Max2(a, b) == IF a > b THEN a ELSE b

RECURSIVE SumSeq(_)
SumSeq(s) == IF s = <<>> THEN 0 ELSE Head(s) + SumSeq(Tail(s))

\* len(x) of a Python list or 1-D array held as a sequence.
len(s) == Len(s)

\* ----------------------------------------------------------- numpy arrays
Array1(d) == [ndim |-> 1, shape |-> <<Len(d)>>, data |-> d]

Array2(r, c, d) == [ndim |-> 2, shape |-> <<r, c>>, data |-> d]

Arr1(n) == {Array1(d) : d \in [1..n -> Values]}

Arr2(r, c) == {Array2(r, c, d) : d \in [1..r -> [1..c -> Values]]}

\* An array of no axis, np.array(v), and arrays of three: r by c by 1.
Array0(v) == [ndim |-> 0, shape |-> <<>>, data |-> v]

Array3(r, c, d) == [ndim |-> 3, shape |-> <<r, c, 1>>, data |-> d]

Arr0 == {Array0(v) : v \in Values}

Arr3(r, c) == {Array3(r, c, d) : d \in [1..r -> [1..c -> [1..1 -> Values]]]}

\* np.reshape(decision_vectors, (1, shape[0]))
Reshape1Row(a) == Array2(1, a.shape[1], <<a.data>>)

\* ------------------------------------------------------------- exceptions
NoError == [type |-> "none", msg |-> "", args |-> <<>>]

Raise(type, msg, args) == [type |-> type, msg |-> msg, args |-> args]

\* What a call did: the exception raised (or none), the value returned, and the
\* number of objective and constraint functions it invoked on the way.
Outcome(e, v, n) == [err |-> e, value |-> v, invoked |-> n]

Returned(v) == Outcome(NoError, Some(v), 0)

Raised(e) == Outcome(e, None, 0)

\* -------------------------------------------- collaborators (symbolic)
ScalarObjective(id) == [type |-> "ScalarObjective", id |-> id]

VectorObjective(id, n) == [type |-> "VectorObjective", id |-> id, n_of_objectives |-> n]

Variable(b) == [bounds |-> b]

ScalarConstraint(id) == [id |-> id]

\* One value produced by objective `id`: its component comp on decision row x.
ObjValue(id, comp, x) == [f |-> id, comp |-> comp, x |-> x]

\* The value of an entry of np.ndarray(...) that has not been written.
Uninit == [f |-> 0, comp |-> 0, x |-> <<>>]

\* objective.evaluate(decision_vector): a scalar, or a vector of length arity.
ObjectiveEvaluate(obj, x) ==
    IF obj.type = "ScalarObjective"
    THEN ObjValue(obj.id, 1, x)
    ELSE [k \in 1..obj.n_of_objectives |-> ObjValue(obj.id, k, x)]

\* constraint.evaluate(decision_vector, objective_vector)
ConstraintEvaluate(con, x, f) == [g |-> con.id, x |-> x, fx |-> f]

UninitCon == [g |-> 0, x |-> <<>>, fx |-> <<>>]

\* What np.ndarray(...) hands out: memory holding whatever was there before.
\* One such content is the pair of values an unwritten entry of the objective
\* matrix and one of the constraint matrix read as.
Memory(o, c) == [obj |-> o, con |-> c]

\* The contents told apart: two for each matrix, so that a value read from an
\* unwritten entry is not one value.
Memories ==
    {Memory([f |-> 0, comp |-> k, x |-> <<>>], [g |-> 0, x |-> <<>>, fx |-> <<k>>]) : k \in {1, 2}}

\* var.get_bounds()
get_bounds(var) == var.bounds

\* ------------------------------------------------------ constructor inputs
\* Lists of scalar objectives, the i-th named i.
ScalarObjLists == {[i \in 1..n |-> ScalarObjective(i)] : n \in 0..MaxObjs}

\* Lists of scalar (arity 1) and vector (arity 2..MaxArity) objectives.
ArityLists == UNION {[1..n -> 1..MaxArity] : n \in 0..MaxObjs}

MixedObj(i, a) == IF a = 1 THEN ScalarObjective(i) ELSE VectorObjective(i, a)

MixedObjLists == {[i \in 1..Len(as) |-> MixedObj(i, as[i])] : as \in ArityLists}

VarLists == UNION {[1..n -> {Variable(b) : b \in BoundPairs}] : n \in 0..MaxVars}

\* The constraints argument: None, or a list (possibly empty).
ConsArgs == {None} \cup {Some([i \in 1..n |-> ScalarConstraint(i)]) : n \in 0..MaxCons}

\* The nadir and ideal arguments: None, or a vector of some length.
NadirVector(n) == [i \in 1..n |-> 2]

IdealVector(n) == [i \in 1..n |-> 1]

NadirArgs == {None} \cup {Some(NadirVector(n)) : n \in 0..MaxRefLen}

IdealArgs == {None} \cup {Some(IdealVector(n)) : n \in 0..MaxRefLen}

\* The argument of evaluate: a 2-D batch with at least one row, or a 1-D vector.
Batches ==
    UNION {Arr2(r, c) : r \in RowCounts, c \in 0..MaxCols}
        \cup UNION {Arr1(n) : n \in 0..MaxCols}

\* ------------------------------------------------------------------ state
VARIABLES
    pc,                  \* "new", "idle", "returned" or "failed"
    kind,                \* the class constructed: "ScalarMOProblem", "MOProblem", "ScalarDataProblem"
    objectives,          \* self.__objectives
    variables,           \* self.__variables
    constraints,         \* self.__constraints (None or a list, as an Optional)
    n_of_objectives,     \* self.__n_of_objectives
    n_of_variables,      \* self.__n_of_variables
    n_of_constraints,    \* self.__n_of_constraints
    nadir,               \* self.__nadir
    ideal,               \* self.__ideal
    decision_vectors,    \* ProblemBase.__decision_vectors
    objective_vectors,   \* ProblemBase.__objective_vectors
    model_exists,        \* ScalarDataProblem.__model_exists
    call,                \* the call in progress or just finished: [op, args]
    outcome              \* what that call returned or raised

vars == <<pc, kind, objectives, variables, constraints, n_of_objectives,
          n_of_variables, n_of_constraints, nadir, ideal, decision_vectors,
          objective_vectors, model_exists, call, outcome>>

fields == <<kind, objectives, variables, constraints, n_of_objectives,
            n_of_variables, n_of_constraints, nadir, ideal, decision_vectors,
            objective_vectors, model_exists>>

NoCall == [op |-> "none", args |-> <<>>]

\* ProblemBase.__init__, before any subclass constructor has run.
Init ==
    /\ pc = "new"
    /\ kind = ""
    /\ objectives = <<>>
    /\ variables = <<>>
    /\ constraints = None
    /\ n_of_objectives = 0
    /\ n_of_variables = 0
    /\ n_of_constraints = 0
    /\ nadir = None
    /\ ideal = None
    /\ decision_vectors = None
    /\ objective_vectors = None
    /\ model_exists = FALSE
    /\ call = NoCall
    /\ outcome = Returned(<<>>)

\* ---------------------------------------------------------- construction
\* number_of_objectives(obj_instance), for the two supported classes.
number_of_objectives(obj) ==
    IF obj.type = "ScalarObjective" THEN 1 ELSE obj.n_of_objectives

\* Mutant: the objectives counted, not their arities summed.
TotalObjectivesAsLength(objs) == Len(objs)

\* sum(map(number_of_objectives, objectives))
TotalObjectives(objs) == SumSeq([i \in 1..Len(objs) |-> number_of_objectives(objs[i])])

\* len(self.constraints) if self.constraints is not None else 0
CountConstraints(cons) == IF IsNone(cons) THEN 0 ELSE len(Get(cons))

NadirCheck(nd, n) ==
    IF ~IsNone(nd) /\ len(Get(nd)) # n
    THEN Raise("ProblemError", "nadir length", <<len(Get(nd)), n>>)
    ELSE NoError

\* Mutant: the ideal vector's length is not checked.
IdealCheckSkipped(id, n) == NoError

IdealCheck(id, n) ==
    IF ~IsNone(id) /\ len(Get(id)) # n
    THEN Raise("ProblemError", "ideal length", <<len(Get(id)), n>>)
    ELSE NoError

NadirIdealCheck(nd, id) ==
    IF ~IsNone(nd) /\ ~IsNone(id) /\ len(Get(nd)) # len(Get(id))
    THEN Raise("ProblemError", "nadir and ideal length", <<len(Get(nd)), len(Get(id))>>)
    ELSE NoError

\* The first check that raises, in the order the constructor makes them.
FirstError(checks) ==
    IF \E i \in 1..Len(checks) : checks[i] # NoError
    THEN checks[CHOOSE i \in 1..Len(checks) :
                    checks[i] # NoError /\ \A j \in 1..(i - 1) : checks[j] = NoError]
    ELSE NoError

\* The validation of ScalarMOProblem.__init__: nadir, ideal, then both.
ScalarMOValidate(nd, id, n) ==
    FirstError(<<NadirCheck(nd, n), IdealCheck(id, n), NadirIdealCheck(nd, id)>>)

\* The validation of MOProblem.__init__: nadir, then ideal.
MOValidate(nd, id, n) == FirstError(<<NadirCheck(nd, n), IdealCheck(id, n)>>)

\* What a constructor does once the counts are computed.
Construct(cls, objs, vs, cons, nd, id, n_obj, err) ==
    /\ call' = [op |-> cls, args |-> <<objs, vs, cons, nd, id>>]
    /\ IF err # NoError
       THEN /\ pc' = "failed"
            /\ outcome' = Raised(err)
            /\ UNCHANGED fields
       ELSE /\ pc' = "returned"
            /\ outcome' = Returned(<<>>)
            /\ kind' = cls
            /\ objectives' = objs
            /\ variables' = vs
            /\ constraints' = cons
            /\ n_of_objectives' = n_obj
            /\ n_of_variables' = len(vs)
            /\ n_of_constraints' = CountConstraints(cons)
            /\ nadir' = nd
            /\ ideal' = id
            /\ UNCHANGED <<decision_vectors, objective_vectors, model_exists>>

\* ScalarMOProblem(objectives, variables, constraints, nadir, ideal), the
\* arguments drawn from the sets given.
ScalarMOProblemInitOn(Objs, Vars, Cons, Nadirs, Ideals) ==
    /\ pc = "new"
    /\ \E objs \in Objs, vs \in Vars, cons \in Cons, nd \in Nadirs, id \in Ideals :
            Construct("ScalarMOProblem", objs, vs, cons, nd, id, len(objs),
                      ScalarMOValidate(nd, id, len(objs)))

MOProblemInitOn(Objs, Vars, Cons, Nadirs, Ideals) ==
    /\ pc = "new"
    /\ \E objs \in Objs, vs \in Vars, cons \in Cons, nd \in Nadirs, id \in Ideals :
            Construct("MOProblem", objs, vs, cons, nd, id, TotalObjectives(objs),
                      MOValidate(nd, id, TotalObjectives(objs)))

ScalarMOProblemInit ==
    ScalarMOProblemInitOn(ScalarObjLists, VarLists, ConsArgs, NadirArgs, IdealArgs)

MOProblemInit == MOProblemInitOn(MixedObjLists, VarLists, ConsArgs, NadirArgs, IdealArgs)

\* ------------------------------------------------------------- evaluation
\* np.ndarray((r, c)): a matrix none of whose entries has been written.
NewMatrix(r, c, u) == Array2(r, c, [i \in 1..r |-> [j \in 1..c |-> u]])

\* M[:, col] = vals, col counted from 0; vals has one entry per row.
SetColumn(M, col, vals) ==
    Array2(M.shape[1], M.shape[2],
           [i \in 1..M.shape[1] |->
               [j \in 1..M.shape[2] |-> IF j = col + 1 THEN vals[i] ELSE M.data[i][j]]])

\* M[:, col : col + k] = block, col counted from 0; block has one k-vector per row.
SetBlock(M, col, k, block) ==
    Array2(M.shape[1], M.shape[2],
           [i \in 1..M.shape[1] |->
               [j \in 1..M.shape[2] |->
                   IF col < j /\ j <= col + k THEN block[i][j - col] ELSE M.data[i][j]]])

\* np.array(list(map(objective.evaluate, decision_vectors)))
MapObjective(obj, dv) == [r \in 1..dv.shape[1] |-> ObjectiveEvaluate(obj, dv.data[r])]

\* Mutant: every row's constraint value computed from the first objective vector.
MapConstraintFirstRow(con, dv, F) ==
    [r \in 1..Min2(dv.shape[1], F.shape[1]) |-> ConstraintEvaluate(con, dv.data[r], F.data[1])]

\* np.array(list(map(constraint.evaluate, decision_vectors, objective_vectors)))
MapConstraint(con, dv, F) ==
    [r \in 1..Min2(dv.shape[1], F.shape[1]) |-> ConstraintEvaluate(con, dv.data[r], F.data[r])]

Loop(e, M, n) == [err |-> e, M |-> M, invoked |-> n]

\* The objective loop of ScalarMOProblem.evaluate: objective col_i fills column col_i.
RECURSIVE ScalarObjectiveLoop(_, _, _, _, _)
ScalarObjectiveLoop(objs, col_i, M, dv, n) ==
    IF col_i >= Len(objs) THEN Loop(NoError, M, n)
    ELSE IF col_i >= M.shape[2]
    THEN Loop(Raise("IndexError", "objective column", <<col_i, M.shape[2]>>), M,
              n + dv.shape[1])
    ELSE ScalarObjectiveLoop(objs, col_i + 1,
                             SetColumn(M, col_i, MapObjective(objs[col_i + 1], dv)),
                             dv, n + dv.shape[1])

\* The width of the slice M[:, col : col + k].
SliceWidth(M, col, k) == Max2(0, Min2(col + k, M.shape[2]) - Min2(col, M.shape[2]))

\* Mutant: the column offset advances by one column per objective.
NextColumnByOne(obj_column, elem_in_curr_obj) == obj_column + 1

\* obj_column = obj_column + elem_in_curr_obj
NextColumn(obj_column, elem_in_curr_obj) == obj_column + elem_in_curr_obj

\* The objective loop of MOProblem.evaluate: an objective of arity 1 fills the
\* column obj_column, one of arity k > 1 the k columns from obj_column on.
RECURSIVE MixedObjectiveLoop(_, _, _, _, _, _)
MixedObjectiveLoop(objs, j, obj_column, M, dv, n) ==
    IF j > Len(objs) THEN Loop(NoError, M, n)
    ELSE LET elem_in_curr_obj == number_of_objectives(objs[j]) IN
         IF elem_in_curr_obj = 1
         THEN IF obj_column >= M.shape[2]
              THEN Loop(Raise("IndexError", "objective column", <<obj_column, M.shape[2]>>),
                        M, n + dv.shape[1])
              ELSE MixedObjectiveLoop(objs, j + 1, NextColumn(obj_column, elem_in_curr_obj),
                                      SetColumn(M, obj_column, MapObjective(objs[j], dv)),
                                      dv, n + dv.shape[1])
         ELSE IF elem_in_curr_obj > 1
         THEN IF SliceWidth(M, obj_column, elem_in_curr_obj) # elem_in_curr_obj
              THEN Loop(Raise("ValueError", "broadcast",
                              <<elem_in_curr_obj, SliceWidth(M, obj_column, elem_in_curr_obj)>>),
                        M, n + dv.shape[1])
              ELSE MixedObjectiveLoop(objs, j + 1, NextColumn(obj_column, elem_in_curr_obj),
                                      SetBlock(M, obj_column, elem_in_curr_obj,
                                               MapObjective(objs[j], dv)),
                                      dv, n + dv.shape[1])
         ELSE MixedObjectiveLoop(objs, j + 1, NextColumn(obj_column, elem_in_curr_obj), M, dv, n)

\* The constraint loop of both evaluate methods: constraint col_i fills column col_i.
RECURSIVE ConstraintLoop(_, _, _, _, _, _)
ConstraintLoop(cons, col_i, C, dv, F, n) ==
    IF col_i >= Len(cons) THEN Loop(NoError, C, n)
    ELSE IF col_i >= C.shape[2]
    THEN Loop(Raise("IndexError", "constraint column", <<col_i, C.shape[2]>>), C,
              n + dv.shape[1])
    ELSE ConstraintLoop(cons, col_i + 1,
                        SetColumn(C, col_i, MapConstraint(cons[col_i + 1], dv, F)),
                        dv, F, n + dv.shape[1])

\* The end of both evaluate methods, from the objective loop's result on: the
\* constraint values, if n_of_constraints > 0, and the pair returned.
Finish(objs, dv, mem) ==
    IF objs.err # NoError THEN Outcome(objs.err, None, objs.invoked)
    ELSE IF n_of_constraints > 0
    THEN IF IsNone(constraints)
         THEN Outcome(Raise("TypeError", "constraints is None", <<>>), None, objs.invoked)
         ELSE LET cs == ConstraintLoop(Get(constraints), 0,
                                       NewMatrix(dv.shape[1], n_of_constraints, mem.con),
                                       dv, objs.M, objs.invoked)
              IN  IF cs.err # NoError THEN Outcome(cs.err, None, cs.invoked)
                  ELSE Outcome(NoError, Some(<<objs.M, Some(cs.M)>>), cs.invoked)
    ELSE Outcome(NoError, Some(<<objs.M, None>>), objs.invoked)

\* A single 1-D vector is promoted to a one-row batch.
Promote(dv) == IF dv.ndim = 1 THEN Reshape1Row(dv) ELSE dv

\* Mutant: the two numbers of the message in the other order.
WidthErrorSwapped(n_cols) ==
    Raise("ProblemError", "input vector length", <<n_of_variables, n_cols>>)

WidthError(n_cols) ==
    Raise("ProblemError", "input vector length", <<n_cols, n_of_variables>>)

\* ScalarMOProblem.evaluate(decision_vectors), the two np.ndarray(...) it
\* allocates holding mem.
ScalarMOEvaluate(decision_vectors_arg, mem) ==
    LET dv == Promote(decision_vectors_arg)
        n_rows == dv.shape[1]
        n_cols == dv.shape[2]
    IN  IF n_cols # n_of_variables THEN Raised(WidthError(n_cols))
        ELSE Finish(ScalarObjectiveLoop(objectives, 0,
                                        NewMatrix(n_rows, n_of_objectives, mem.obj), dv, 0),
                    dv, mem)

\* get_variable_lower_bounds() and get_variable_upper_bounds()
get_variable_lower_bounds == [i \in 1..Len(variables) |-> get_bounds(variables[i])[1]]

get_variable_upper_bounds == [i \in 1..Len(variables) |-> get_bounds(variables[i])[2]]

\* numpy broadcasts a vector of length v against rows of length c iff v = c or
\* one of them is 1; the rows of the result have the length of the other.
Broadcasts(v, c) == v = c \/ v = 1 \/ c = 1

BroadcastWidth(v, c) == IF v = 1 THEN c ELSE v

\* Mutant: >= in the place of >, so that a value on its bound is refused.
AnyAboveOrEqual(bounds, dv) ==
    \E r \in 1..dv.shape[1], w \in 1..BroadcastWidth(Len(bounds), dv.shape[2]) :
        bounds[IF Len(bounds) = 1 THEN 1 ELSE w] >= dv.data[r][IF dv.shape[2] = 1 THEN 1 ELSE w]

\* np.any(bounds > decision_vectors), the comparison broadcast.
AnyAbove(bounds, dv) ==
    \E r \in 1..dv.shape[1], w \in 1..BroadcastWidth(Len(bounds), dv.shape[2]) :
        bounds[IF Len(bounds) = 1 THEN 1 ELSE w] > dv.data[r][IF dv.shape[2] = 1 THEN 1 ELSE w]

\* np.any(bounds < decision_vectors), the comparison broadcast.
AnyBelow(bounds, dv) ==
    \E r \in 1..dv.shape[1], w \in 1..BroadcastWidth(Len(bounds), dv.shape[2]) :
        bounds[IF Len(bounds) = 1 THEN 1 ELSE w] < dv.data[r][IF dv.shape[2] = 1 THEN 1 ELSE w]

\* The bounds check of MOProblem.evaluate: the exception it raises, or none.
BoundsCheck(dv) ==
    IF ~Broadcasts(Len(get_variable_lower_bounds), dv.shape[2])
    THEN Raise("ValueError", "operands could not be broadcast together",
               <<Len(get_variable_lower_bounds), dv.shape[2]>>)
    ELSE IF AnyAbove(get_variable_lower_bounds, dv)
    THEN Raise("ValueError", "Some decision variable values violate lower bounds", <<>>)
    ELSE IF AnyBelow(get_variable_upper_bounds, dv)
    THEN Raise("ValueError", "Some decision variable values violate upper bounds", <<>>)
    ELSE NoError

\* MOProblem.evaluate(decision_vectors), the two np.ndarray(...) it allocates
\* holding mem.
MOEvaluate(decision_vectors_arg, mem) ==
    LET dv == Promote(decision_vectors_arg)
        n_rows == dv.shape[1]
        n_cols == dv.shape[2]
    IN  IF BoundsCheck(dv) # NoError THEN Raised(BoundsCheck(dv))
        ELSE IF n_cols # n_of_variables THEN Raised(WidthError(n_cols))
        ELSE Finish(MixedObjectiveLoop(objectives, 1, 0,
                                       NewMatrix(n_rows, n_of_objectives, mem.obj), dv, 0),
                    dv, mem)

\* Mutant: the call takes the width of its batch for the number of variables.
EvaluateAdoptingWidth(dv, result) ==
    /\ pc' = "returned"
    /\ call' = [op |-> "evaluate", args |-> <<dv>>]
    /\ outcome' = result
    /\ n_of_variables' = dv.shape[dv.ndim]
    /\ UNCHANGED <<kind, objectives, variables, constraints, n_of_objectives,
                   n_of_constraints, nadir, ideal, decision_vectors, objective_vectors,
                   model_exists>>

\* A call of evaluate on a constructed problem.
Evaluate(dv, result) ==
    /\ pc' = "returned"
    /\ call' = [op |-> "evaluate", args |-> <<dv>>]
    /\ outcome' = result
    /\ UNCHANGED fields

\* evaluate called with a batch of S, the allocated memory holding one of Mem.
ScalarMOProblemEvaluateOn(S, Mem) ==
    /\ pc = "idle"
    /\ kind = "ScalarMOProblem"
    /\ \E dv \in S, mem \in Mem : Evaluate(dv, ScalarMOEvaluate(dv, mem))

MOProblemEvaluateOn(S, Mem) ==
    /\ pc = "idle"
    /\ kind = "MOProblem"
    /\ \E dv \in S, mem \in Mem : Evaluate(dv, MOEvaluate(dv, mem))

\* With the counts of construction every entry of both matrices is written
\* before it is read or returned, so one content of the memory stands for all.
ScalarMOProblemEvaluate == ScalarMOProblemEvaluateOn(Batches, {Memory(Uninit, UninitCon)})

MOProblemEvaluate == MOProblemEvaluateOn(Batches, {Memory(Uninit, UninitCon)})

\* ------------------------------------------- evaluate_constraint_values
\* Mutant: None for a problem without constraints, as the dataset-backed
\* problem answers.
ScalarMOEvaluateConstraintValuesOrNone ==
    IF n_of_constraints = 0 THEN Returned(None)
    ELSE Raised(Raise("NotImplementedError", "Not implemented for ScalarMOProblem", <<>>))

\* ScalarMOProblem.evaluate_constraint_values(): the raise is its whole body.
ScalarMOEvaluateConstraintValues ==
    Raised(Raise("NotImplementedError", "Not implemented for ScalarMOProblem", <<>>))

\* MOProblem.evaluate_constraint_values(): the same statement, the same message.
MOEvaluateConstraintValues ==
    Raised(Raise("NotImplementedError", "Not implemented for ScalarMOProblem", <<>>))

\* A call of a method without arguments on a constructed problem.
Called(op, result) ==
    /\ pc' = "returned"
    /\ call' = [op |-> op, args |-> <<>>]
    /\ outcome' = result
    /\ UNCHANGED fields

ScalarMOProblemEvaluateConstraintValues ==
    /\ pc = "idle"
    /\ kind = "ScalarMOProblem"
    /\ Called("evaluate_constraint_values", ScalarMOEvaluateConstraintValues)

MOProblemEvaluateConstraintValues ==
    /\ pc = "idle"
    /\ kind = "MOProblem"
    /\ Called("evaluate_constraint_values", MOEvaluateConstraintValues)

\* --------------------------------------------------- attribute assignment
\* problem.objectives = val, problem.variables = val, problem.constraints = val
\* on a problem of class cls, val drawn from Vals: each setter stores val in
\* its own attribute and does nothing else.
SetObjectives(cls, Vals) ==
    /\ pc = "idle"
    /\ kind = cls
    /\ \E val \in Vals : objectives' = val
    /\ UNCHANGED <<pc, kind, variables, constraints, n_of_objectives, n_of_variables,
                   n_of_constraints, nadir, ideal, decision_vectors, objective_vectors,
                   model_exists, call, outcome>>

SetVariables(cls, Vals) ==
    /\ pc = "idle"
    /\ kind = cls
    /\ \E val \in Vals : variables' = val
    /\ UNCHANGED <<pc, kind, objectives, constraints, n_of_objectives, n_of_variables,
                   n_of_constraints, nadir, ideal, decision_vectors, objective_vectors,
                   model_exists, call, outcome>>

SetConstraints(cls, Vals) ==
    /\ pc = "idle"
    /\ kind = cls
    /\ \E val \in Vals : constraints' = val
    /\ UNCHANGED <<pc, kind, objectives, variables, n_of_objectives, n_of_variables,
                   n_of_constraints, nadir, ideal, decision_vectors, objective_vectors,
                   model_exists, call, outcome>>

\* ------------------------------------------------- the dataset-backed problem
\* The matrices given to ScalarDataProblem: 2-D, of any number of rows, or 1-D.
DecisionData ==
    UNION {Arr2(r, c) : r \in 0..MaxDataRows, c \in 1..MaxDataVars}
        \cup UNION {Arr1(n) : n \in 1..MaxDataVars}

ObjectiveData ==
    UNION {Arr2(r, c) : r \in 0..MaxDataRows, c \in 1..MaxDataObjs}
        \cup UNION {Arr1(n) : n \in 1..MaxDataObjs}

\* The query of ScalarDataProblem.evaluate: one decision vector.
Queries == UNION {Arr1(n) : n \in 0..MaxDataVars}

RECURSIVE MaxOf(_)
MaxOf(s) == IF Len(s) = 1 THEN s[1] ELSE Max2(Head(s), MaxOf(Tail(s)))

RECURSIVE MinOf(_)
MinOf(s) == IF Len(s) = 1 THEN s[1] ELSE Min2(Head(s), MinOf(Tail(s)))

\* Column j of a 2-D array, as a sequence.
Column(a, j) == [r \in 1..a.shape[1] |-> a.data[r][j]]

\* Mutant: the maximum taken along the rows (axis=1).
RowMax(a) == [r \in 1..a.shape[1] |-> MaxOf(a.data[r])]

\* np.max(a, axis=0) and np.min(a, axis=0) of a 2-D array with at least one row.
ColumnMax(a) == [j \in 1..a.shape[2] |-> MaxOf(Column(a, j))]

ColumnMin(a) == [j \in 1..a.shape[2] |-> MinOf(Column(a, j))]

\* np.max(a, axis=0) and np.min(a, axis=0) of an array of two axes or three:
\* the first axis is the one reduced, the others stay.
AxisMax(a) ==
    IF a.ndim = 2 THEN ColumnMax(a)
    ELSE [j \in 1..a.shape[2] |->
             [k \in 1..a.shape[3] |-> MaxOf([r \in 1..a.shape[1] |-> a.data[r][j][k]])]]

AxisMin(a) ==
    IF a.ndim = 2 THEN ColumnMin(a)
    ELSE [j \in 1..a.shape[2] |->
             [k \in 1..a.shape[3] |-> MinOf([r \in 1..a.shape[1] |-> a.data[r][j][k]])]]

\* The exception ScalarDataProblem.__init__ raises, or none: shape[1] of an array
\* of fewer than two axes is an IndexError, turned into a ProblemError; the
\* maximum over no rows is numpy's ValueError.
DataValidate(dec, obj) ==
    IF dec.ndim < 2
    THEN Raise("ProblemError", "Check the variable dimensions. Is it a 2D array?",
               <<"tuple index out of range">>)
    ELSE IF obj.ndim < 2
    THEN Raise("ProblemError", "Check the objective dimensions. Is it a 2D array?",
               <<"tuple index out of range">>)
    ELSE IF obj.shape[1] = 0 /\ obj.shape[2] > 0
    THEN Raise("ValueError", "zero-size array to reduction operation", <<>>)
    ELSE NoError

\* ScalarDataProblem(decision_vectors, objective_vectors), the arguments drawn
\* from the sets given.
ScalarDataProblemInitOn(Decs, Objs) ==
    /\ pc = "new"
    /\ \E dec \in Decs, obj \in Objs :
          /\ call' = [op |-> "ScalarDataProblem", args |-> <<dec, obj>>]
          /\ IF DataValidate(dec, obj) # NoError
             THEN /\ pc' = "failed"
                  /\ outcome' = Raised(DataValidate(dec, obj))
                  /\ UNCHANGED fields
             ELSE /\ pc' = "returned"
                  /\ outcome' = Returned(<<>>)
                  /\ kind' = "ScalarDataProblem"
                  /\ decision_vectors' = Some(dec)
                  /\ objective_vectors' = Some(obj)
                  /\ model_exists' = FALSE
                  /\ constraints' = Some(<<>>)
                  /\ n_of_variables' = dec.shape[2]
                  /\ n_of_objectives' = obj.shape[2]
                  /\ nadir' = Some(AxisMax(obj))
                  /\ ideal' = Some(AxisMin(obj))
                  /\ UNCHANGED <<objectives, variables, n_of_constraints>>

ScalarDataProblemInit == ScalarDataProblemInitOn(DecisionData, ObjectiveData)

\* The squared Euclidean norm of row r of (dec - q), q broadcast against the rows.
\* np.linalg.norm is its square root, which has its minimum at the same rows.
RowNorm(dec, q, r) ==
    SumSeq([w \in 1..BroadcastWidth(q.shape[1], dec.shape[2]) |->
               (dec.data[r][IF dec.shape[2] = 1 THEN 1 ELSE w]
                    - q.data[IF q.shape[1] = 1 THEN 1 ELSE w])
             * (dec.data[r][IF dec.shape[2] = 1 THEN 1 ELSE w]
                    - q.data[IF q.shape[1] = 1 THEN 1 ELSE w])])

\* Mutant: the last index of the minimum, not the first.
ArgMinLast(s) ==
    (CHOOSE i \in 1..Len(s) :
        /\ \A j \in 1..Len(s) : s[i] <= s[j]
        /\ \A j \in (i + 1)..Len(s) : s[j] > s[i]) - 1

\* a.argmin() of a non-empty 1-D sequence: the first index (from 0) of its minimum.
ArgMin(s) ==
    (CHOOSE i \in 1..Len(s) :
        /\ \A j \in 1..Len(s) : s[i] <= s[j]
        /\ \A j \in 1..(i - 1) : s[j] > s[i]) - 1

\* Mutant: the index unravelled in row-major order (order="C").
UnravelC(k, shape) ==
    IF k >= shape[1] * shape[2]
    THEN [err |-> Raise("ValueError", "index is out of bounds for array",
                        <<k, shape[1] * shape[2]>>),
          value |-> <<>>]
    ELSE [err |-> NoError, value |-> <<k \div shape[2], k % shape[2]>>]

\* np.unravel_index(k, shape, order="F") of a 2-D shape: the first index runs
\* fastest; a k that is no index into the shape is a ValueError.
UnravelF(k, shape) ==
    IF k >= shape[1] * shape[2]
    THEN [err |-> Raise("ValueError", "index is out of bounds for array",
                        <<k, shape[1] * shape[2]>>),
          value |-> <<>>]
    ELSE [err |-> NoError, value |-> <<k % shape[1], k \div shape[1]>>]

\* np.linalg.norm(dec - q, axis=1).argmin(), for dec with at least one row.
NearestRow(dec, q) == ArgMin([r \in 1..dec.shape[1] |-> RowNorm(dec, q, r)])

\* The row index ScalarDataProblem.evaluate computes: element [0] of the
\* unravelled argmin.
ClosestIndex(dec, obj, q) ==
    LET u == UnravelF(NearestRow(dec, q), obj.shape)
    IN  IF u.err # NoError THEN [err |-> u.err, value |-> 0]
        ELSE [err |-> NoError, value |-> u.value[1]]

\* ScalarDataProblem.evaluate(decision_vectors)
DataEvaluate(q) ==
    LET dec == Get(decision_vectors)
        obj == Get(objective_vectors)
    IN  IF model_exists
        THEN Raised(Raise("NotImplementedError",
                          "Models not implemented yet for data based problems.", <<>>))
        ELSE IF ~Broadcasts(q.shape[1], dec.shape[2])
        THEN Raised(Raise("ValueError", "operands could not be broadcast together",
                          <<dec.shape[2], q.shape[1]>>))
        ELSE IF dec.shape[1] = 0
        THEN Raised(Raise("ValueError", "attempt to get argmin of an empty sequence", <<>>))
        ELSE LET idx == ClosestIndex(dec, obj, q) IN
             IF idx.err # NoError THEN Raised(idx.err)
             ELSE Returned(<<obj.data[idx.value + 1]>>)

ScalarDataProblemEvaluate ==
    /\ pc = "idle"
    /\ kind = "ScalarDataProblem"
    /\ \E q \in Queries : Evaluate(q, DataEvaluate(q))

\* ScalarDataProblem.evaluate_constraint_values(): con.evaluate is given the two
\* stored arrays whole, and the number it returns is written down column ind.
DataEvaluateConstraintValues ==
    LET cons == Get(constraints)
        dec == Get(decision_vectors)
        obj == Get(objective_vectors)
    IN  IF len(cons) = 0 THEN Returned(None)
        ELSE Returned(Array2(obj.shape[1], len(cons),
                             [r \in 1..obj.shape[1] |->
                                 [ind \in 1..len(cons) |->
                                     ConstraintEvaluate(cons[ind], dec, obj)]]))

ScalarDataProblemEvaluateConstraintValues ==
    /\ pc = "idle"
    /\ kind = "ScalarDataProblem"
    /\ Called("evaluate_constraint_values", DataEvaluateConstraintValues)

\* A bound of get_variable_bounds: the value v moved by k times epsilon.
Shifted(v, k) == [value |-> v, epsilons |-> k]

\* ScalarDataProblem.get_variable_bounds(): one (min - epsilon, max + epsilon)
\* row for each column of the stored decision matrix.
DataGetVariableBounds ==
    LET dec == Get(decision_vectors)
    IN  IF dec.shape[1] = 0 /\ dec.shape[2] > 0
        THEN Raised(Raise("ValueError", "zero-size array to reduction operation", <<>>))
        ELSE Returned(Array2(dec.shape[2], 2,
                             [j \in 1..dec.shape[2] |->
                                 <<Shifted(ColumnMin(dec)[j], -1),
                                   Shifted(ColumnMax(dec)[j], 1)>>]))

ScalarDataProblemGetVariableBounds ==
    /\ pc = "idle"
    /\ kind = "ScalarDataProblem"
    /\ Called("get_variable_bounds", DataGetVariableBounds)

\* problem.decision_vectors = val and problem.objective_vectors = val, the
\* setters of ProblemBase: each stores val and does nothing else.
SetDecisionVectors(cls, Vals) ==
    /\ pc = "idle"
    /\ kind = cls
    /\ \E val \in Vals : decision_vectors' = Some(val)
    /\ UNCHANGED <<pc, kind, objectives, variables, constraints, n_of_objectives,
                   n_of_variables, n_of_constraints, nadir, ideal, objective_vectors,
                   model_exists, call, outcome>>

SetObjectiveVectors(cls, Vals) ==
    /\ pc = "idle"
    /\ kind = cls
    /\ \E val \in Vals : objective_vectors' = Some(val)
    /\ UNCHANGED <<pc, kind, objectives, variables, constraints, n_of_objectives,
                   n_of_variables, n_of_constraints, nadir, ideal, decision_vectors,
                   model_exists, call, outcome>>

\* The caller takes the result of the call; the problem is ready for the next.
Return ==
    /\ pc = "returned"
    /\ pc' = "idle"
    /\ call' = NoCall
    /\ outcome' = Returned(<<>>)
    /\ UNCHANGED fields

\* The function problems: ScalarMOProblem and MOProblem.
Next ==
    \/ ScalarMOProblemInit
    \/ MOProblemInit
    \/ ScalarMOProblemEvaluate
    \/ MOProblemEvaluate
    \/ Return

Spec == Init /\ [][Next]_vars

\* The dataset-backed problem: ScalarDataProblem.
NextData ==
    \/ ScalarDataProblemInit
    \/ ScalarDataProblemEvaluate
    \/ Return

SpecData == Init /\ [][NextData]_vars

\* The construction of a dataset-backed problem from arrays of any number of
\* axes: none, one, two or three, each axis of at least one entry.
DimsDecisionData ==
    Arr0 \cup UNION {Arr1(c) : c \in 1..MaxDataVars}
         \cup UNION {Arr2(r, c) \cup Arr3(r, c) : r \in 1..MaxDataRows, c \in 1..MaxDataVars}

DimsObjectiveData ==
    Arr0 \cup UNION {Arr1(c) : c \in 1..MaxDataObjs}
         \cup UNION {Arr2(r, c) \cup Arr3(r, c) : r \in 1..MaxDataRows, c \in 1..MaxDataObjs}

DimsScalarDataProblemInit == ScalarDataProblemInitOn(DimsDecisionData, DimsObjectiveData)

NextDims ==
    \/ DimsScalarDataProblemInit
    \/ Return

SpecDims == Init /\ [][NextDims]_vars

\* The arguments of the problems whose calls and attribute assignments are
\* followed in any order. They are few, so that every assignment can follow
\* every other: objectives of which at most one is a vector objective,
\* variables of the widest bounds, batches of one row, no reference points.
LifeMixedObjLists ==
    {objs \in MixedObjLists :
        Cardinality({i \in 1..Len(objs) : objs[i].type = "VectorObjective"}) <= 1}

LifeVarLists ==
    {[i \in 1..n |-> Variable(b)] : n \in 0..MaxVars,
        b \in {c \in BoundPairs : \A v \in Values : c[1] <= v /\ v <= c[2]}}

LifeBatches == UNION {Arr2(1, c) : c \in 0..MaxCols}

\* The matrices of a dataset-backed problem's life: at least one row each, one
\* objective column; the lists of constraints attached to it.
LifeDecisionData == UNION {Arr2(r, c) : r \in 1..MaxDataRows, c \in 1..MaxDataVars}

LifeObjectiveData == UNION {Arr2(r, 1) : r \in 1..MaxDataRows}

LifeConstraintLists == {Some([i \in 1..n |-> ScalarConstraint(i)]) : n \in 0..MaxCons}

LifeScalarMOProblemInit ==
    ScalarMOProblemInitOn(ScalarObjLists, LifeVarLists, ConsArgs, {None}, {None})

LifeMOProblemInit ==
    MOProblemInitOn(LifeMixedObjLists, LifeVarLists, ConsArgs, {None}, {None})

LifeScalarMOProblemEvaluate == ScalarMOProblemEvaluateOn(LifeBatches, Memories)

LifeMOProblemEvaluate == MOProblemEvaluateOn(LifeBatches, Memories)

ScalarMOProblemSetObjectives == SetObjectives("ScalarMOProblem", ScalarObjLists)

ScalarMOProblemSetVariables == SetVariables("ScalarMOProblem", LifeVarLists)

ScalarMOProblemSetConstraints == SetConstraints("ScalarMOProblem", ConsArgs)

MOProblemSetObjectives == SetObjectives("MOProblem", LifeMixedObjLists)

MOProblemSetVariables == SetVariables("MOProblem", LifeVarLists)

MOProblemSetConstraints == SetConstraints("MOProblem", ConsArgs)

LifeScalarDataProblemInit == ScalarDataProblemInitOn(LifeDecisionData, LifeObjectiveData)

ScalarDataProblemSetDecisionVectors ==
    SetDecisionVectors("ScalarDataProblem", LifeDecisionData)

ScalarDataProblemSetObjectiveVectors ==
    SetObjectiveVectors("ScalarDataProblem", LifeObjectiveData)

ScalarDataProblemSetConstraints == SetConstraints("ScalarDataProblem", LifeConstraintLists)

\* A problem of any of the three classes constructed, then evaluated any number
\* of times on any batch, the memory np.ndarray hands out holding whatever the
\* calls before have left in it.
CallsScalarMOProblemEvaluate == ScalarMOProblemEvaluateOn(Batches, Memories)

CallsMOProblemEvaluate == MOProblemEvaluateOn(Batches, Memories)

NextCalls ==
    \/ LifeScalarMOProblemInit
    \/ LifeMOProblemInit
    \/ LifeScalarDataProblemInit
    \/ CallsScalarMOProblemEvaluate
    \/ CallsMOProblemEvaluate
    \/ ScalarDataProblemEvaluate
    \/ Return

SpecCalls == Init /\ [][NextCalls]_vars

NextLife ==
    \/ LifeScalarMOProblemInit
    \/ LifeMOProblemInit
    \/ LifeScalarMOProblemEvaluate
    \/ LifeMOProblemEvaluate
    \/ ScalarMOProblemEvaluateConstraintValues
    \/ MOProblemEvaluateConstraintValues
    \/ ScalarMOProblemSetObjectives
    \/ ScalarMOProblemSetVariables
    \/ ScalarMOProblemSetConstraints
    \/ MOProblemSetObjectives
    \/ MOProblemSetVariables
    \/ MOProblemSetConstraints
    \/ LifeScalarDataProblemInit
    \/ ScalarDataProblemEvaluate
    \/ ScalarDataProblemEvaluateConstraintValues
    \/ ScalarDataProblemGetVariableBounds
    \/ ScalarDataProblemSetDecisionVectors
    \/ ScalarDataProblemSetObjectiveVectors
    \/ ScalarDataProblemSetConstraints
    \/ Return

SpecLife == Init /\ [][NextLife]_vars

\* ------------------------------------------------------------------ claims
\* What the claims say, in terms of the arguments of the call alone.
Constructors == {"ScalarMOProblem", "MOProblem"}

Constructed == pc = "returned" /\ call.op \in Constructors

ConstructorDone == pc \in {"returned", "failed"} /\ call.op \in Constructors

Arity(obj) == IF obj.type = "VectorObjective" THEN obj.n_of_objectives ELSE 1

\* The output columns the objectives objs ask for: (objective, component) pairs.
Slots(objs) == {s \in (1..Len(objs)) \X (1..MaxArity) : s[2] <= Arity(objs[s[1]])}

\* The number of columns the objectives before the j-th ask for.
Offset(objs, j) == Cardinality({s \in Slots(objs) : s[1] < j})

Evaluated(cls) == pc = "returned" /\ call.op = "evaluate" /\ kind = cls

\* The batch of the evaluate call, a 1-D vector read as one row.
Batch == IF call.args[1].ndim = 1 THEN Array2(1, call.args[1].shape[1], <<call.args[1].data>>)
         ELSE call.args[1]

Succeeded == outcome.err.type = "none"

BelowLower(dv) ==
    \E r \in 1..dv.shape[1], c \in 1..dv.shape[2] : dv.data[r][c] < variables[c].bounds[1]

AboveUpper(dv) ==
    \E r \in 1..dv.shape[1], c \in 1..dv.shape[2] : dv.data[r][c] > variables[c].bounds[2]

\* C1: a ScalarMOProblem or MOProblem that has been constructed has
\* n_of_objectives equal to the sum of the arities of the objectives given
\* (1 for a scalar objective, n_of_objectives for a vector one), n_of_variables
\* equal to the number of variables given, and n_of_constraints equal to the
\* length of the constraints given, 0 for None.
C1_CountsOfConstruction ==
    Constructed =>
        /\ n_of_objectives = Cardinality(Slots(call.args[1]))
        /\ n_of_variables = Len(call.args[2])
        /\ n_of_constraints = (IF call.args[3] = <<>> THEN 0 ELSE Len(call.args[3][1]))

C1_Witness ==
    /\ Constructed
    /\ call.op = "MOProblem"
    /\ Len(call.args[1]) = 2
    /\ call.args[1][1].type = "ScalarObjective"
    /\ call.args[1][2].type = "VectorObjective"
    /\ n_of_objectives = 3
    /\ Len(call.args[2]) = 2
    /\ call.args[3] = <<>>

\* C2: the construction of a ScalarMOProblem or MOProblem raises, and then a
\* ProblemError, exactly when a nadir is given whose length is not the number
\* of objectives, or an ideal is given whose length is not, or both are given
\* with different lengths; otherwise it succeeds and the problem holds the
\* nadir and the ideal that were given.
C2_ConstructionFailsIffBadReference ==
    ConstructorDone =>
        LET n == Cardinality(Slots(call.args[1]))
            nd == call.args[4]
            id == call.args[5]
            bad == \/ nd # <<>> /\ Len(nd[1]) # n
                   \/ id # <<>> /\ Len(id[1]) # n
                   \/ nd # <<>> /\ id # <<>> /\ Len(nd[1]) # Len(id[1])
        IN  /\ (pc = "failed") <=> bad
            /\ pc = "failed" => outcome.err.type = "ProblemError" /\ outcome.value = <<>>
            /\ pc = "returned" => Succeeded /\ nadir = nd /\ ideal = id

C2_Witness ==
    /\ pc = "failed"
    /\ call.op = "MOProblem"
    /\ Len(call.args[1]) = 1
    /\ call.args[4] = <<NadirVector(1)>>
    /\ call.args[5] = <<IdealVector(0)>>
    /\ outcome.err.type = "ProblemError"

C4_BoundsViolation ==
    (Evaluated("MOProblem") /\ Batch.shape[2] = Len(variables)) =>
        /\ (outcome.err.type = "ValueError") <=> (BelowLower(Batch) \/ AboveUpper(Batch))
        /\ BelowLower(Batch) =>
               outcome.err.msg = "Some decision variable values violate lower bounds"
        /\ (~BelowLower(Batch) /\ AboveUpper(Batch)) =>
               outcome.err.msg = "Some decision variable values violate upper bounds"

C4_Witness ==
    /\ Evaluated("MOProblem")
    /\ Batch.shape = <<1, 2>>
    /\ Len(variables) = 2
    /\ BelowLower(Batch)
    /\ AboveUpper(Batch)
    /\ outcome.err.msg = "Some decision variable values violate lower bounds"

\* C5: ScalarMOProblem.evaluate on a batch, or a single vector, whose width is
\* not n_of_variables raises a ProblemError carrying that width and
\* n_of_variables, having invoked no objective and no constraint function and
\* returning nothing; on a batch of the right width it raises no ProblemError.
C5_ScalarWidthMismatch ==
    Evaluated("ScalarMOProblem") =>
        IF Batch.shape[2] # n_of_variables
        THEN /\ outcome.err.type = "ProblemError"
             /\ outcome.err.args = <<Batch.shape[2], n_of_variables>>
             /\ outcome.invoked = 0
             /\ outcome.value = <<>>
        ELSE outcome.err.type # "ProblemError"

C5_Witness ==
    /\ Evaluated("ScalarMOProblem")
    /\ call.args[1].ndim = 1
    /\ call.args[1].shape[1] = 2
    /\ n_of_variables = 1
    /\ Len(objectives) = 2
    /\ n_of_constraints = 1
    /\ outcome.err.type = "ProblemError"
    /\ outcome.err.args = <<2, 1>>

\* C6 (as claimed): MOProblem.evaluate on a batch whose width is not
\* n_of_variables raises the ProblemError carrying that width and
\* n_of_variables, whatever the values of the batch and the bounds of the
\* variables, and no error of another kind.
C6_WidthMismatchIsProblemError ==
    (Evaluated("MOProblem") /\ Batch.shape[2] # n_of_variables) =>
        /\ outcome.err.type = "ProblemError"
        /\ outcome.err.args = <<Batch.shape[2], n_of_variables>>

\* C7: when a ScalarMOProblem or MOProblem with n_of_constraints > 0 has
\* evaluated a batch, the second value returned is a matrix of one row per
\* row of the batch and one column per constraint, whose entry (r, c) is the
\* c-th constraint evaluated on row r of the batch and row r of the objective
\* matrix returned, every column of which an objective has written; without
\* constraints (an empty list, or None) the second value is None.
C7_ConstraintMatrix ==
    ((Evaluated("ScalarMOProblem") \/ Evaluated("MOProblem")) /\ Succeeded) =>
        LET F == outcome.value[1][1]
            second == outcome.value[1][2]
        IN  /\ \A r \in 1..F.shape[1], c \in 1..F.shape[2] : F.data[r][c].f # 0
            /\ IF n_of_constraints > 0
               THEN /\ second # <<>>
                    /\ second[1].shape = <<Batch.shape[1], n_of_constraints>>
                    /\ \A r \in 1..Batch.shape[1], c \in 1..n_of_constraints :
                           second[1].data[r][c]
                               = [g |-> constraints[1][c].id, x |-> Batch.data[r],
                                  fx |-> F.data[r]]
               ELSE second = <<>>
            /\ (constraints = <<>> \/ constraints = <<<<>>>>) => second = <<>>

C7_Witness ==
    /\ Evaluated("MOProblem")
    /\ Succeeded
    /\ n_of_constraints = 2
    /\ Len(objectives) = 2
    /\ Batch.shape = <<2, 1>>
    /\ Batch.data[1] # Batch.data[2]
    /\ outcome.value[1][2][1].data[2][2].fx = outcome.value[1][1].data[2]

\* The stored matrices of a ScalarDataProblem, and the query of its evaluate.
Stored == Get(decision_vectors)

StoredObjectives == Get(objective_vectors)

Query == call.args[1]

\* The rows that both stored matrices have.
PairedRows == 1..Min2(Stored.shape[1], StoredObjectives.shape[1])

\* The objective vector evaluate returned.
ReturnedVector == outcome.value[1][1]

\* The squared Euclidean distance of the query from stored decision row i.
Distance(i) ==
    SumSeq([w \in 1..Stored.shape[2] |->
               (Stored.data[i][w] - Query.data[w]) * (Stored.data[i][w] - Query.data[w])])

\* C8 (as claimed): ScalarDataProblem.evaluate, given a vector identical to
\* the stored decision row i, returns the objective vector stored at row i.
C8_StoredRowReturnsItsObjectives ==
    Evaluated("ScalarDataProblem") =>
        \A i \in PairedRows :
            Query.data = Stored.data[i] =>
                Succeeded /\ ReturnedVector = StoredObjectives.data[i]

\* C8 (amended): ScalarDataProblem.evaluate, given a vector identical to the
\* stored decision row i, returns the objective vector stored at the first
\* row whose decision vector equals that of row i: that of row i itself
\* whenever no earlier row stores the same decision vector.
C8_StoredRowReturnsFirstEqualRow ==
    Evaluated("ScalarDataProblem") =>
        \A i \in PairedRows :
            Query.data = Stored.data[i] =>
                /\ Succeeded
                /\ \E j \in 1..i :
                       /\ Stored.data[j] = Stored.data[i]
                       /\ \A h \in 1..(j - 1) : Stored.data[h] # Stored.data[i]
                       /\ ReturnedVector = StoredObjectives.data[j]
                /\ (\A h \in 1..(i - 1) : Stored.data[h] # Stored.data[i])
                       => ReturnedVector = StoredObjectives.data[i]

C8_Witness ==
    /\ Evaluated("ScalarDataProblem")
    /\ Succeeded
    /\ Stored.shape[1] = 2
    /\ StoredObjectives.shape[1] = 2
    /\ Stored.data[1] # Stored.data[2]
    /\ StoredObjectives.data[1] # StoredObjectives.data[2]
    /\ Query.data = Stored.data[2]
    /\ ReturnedVector = StoredObjectives.data[2]

\* C9: for a ScalarDataProblem whose stored matrices have the same number of
\* rows, evaluate on one query vector returns the stored objective row k, k
\* the smallest index of a stored decision row at the least Euclidean
\* distance from the query; the index evaluate computes, the distances'
\* argmin unravelled through the objective matrix's shape in column-major
\* order, is k.
C9_NearestRowReturned ==
    (/\ Evaluated("ScalarDataProblem")
     /\ Stored.shape[1] = StoredObjectives.shape[1]
     /\ Query.shape[1] = Stored.shape[2]) =>
        /\ Succeeded
        /\ \E k \in 1..Stored.shape[1] :
               /\ \A j \in 1..Stored.shape[1] : Distance(k) <= Distance(j)
               /\ \A j \in 1..(k - 1) : Distance(j) > Distance(k)
               /\ ReturnedVector = StoredObjectives.data[k]
               /\ ClosestIndex(Stored, StoredObjectives, Query)
                      = [err |-> NoError, value |-> k - 1]

C9_Witness ==
    /\ Evaluated("ScalarDataProblem")
    /\ Succeeded
    /\ Stored.shape = <<2, 1>>
    /\ StoredObjectives.shape = <<2, 2>>
    /\ Query.shape[1] = 1
    /\ Distance(2) < Distance(1)
    /\ StoredObjectives.data[1] # StoredObjectives.data[2]
    /\ ReturnedVector = StoredObjectives.data[2]

\* C10: a ScalarDataProblem constructed from a 2-D decision matrix and a 2-D
\* objective matrix with at least one row is constructed, and has as nadir
\* the maximum and as ideal the minimum of every column of the objective
\* matrix, both of length n_of_objectives, the number of objective columns,
\* and n_of_variables is the number of decision columns.
C10_NadirIdealOfData ==
    (/\ pc \in {"returned", "failed"}
     /\ call.op = "ScalarDataProblem"
     /\ call.args[1].ndim = 2
     /\ call.args[2].ndim = 2
     /\ call.args[2].shape[1] > 0) =>
        LET obj == call.args[2] IN
        /\ pc = "returned"
        /\ n_of_variables = call.args[1].shape[2]
        /\ n_of_objectives = obj.shape[2]
        /\ nadir # <<>> /\ Len(nadir[1]) = n_of_objectives
        /\ ideal # <<>> /\ Len(ideal[1]) = n_of_objectives
        /\ \A j \in 1..obj.shape[2] :
               /\ \E r \in 1..obj.shape[1] : nadir[1][j] = obj.data[r][j]
               /\ \A r \in 1..obj.shape[1] : nadir[1][j] >= obj.data[r][j]
               /\ \E r \in 1..obj.shape[1] : ideal[1][j] = obj.data[r][j]
               /\ \A r \in 1..obj.shape[1] : ideal[1][j] <= obj.data[r][j]

C10_Witness ==
    /\ pc = "returned"
    /\ call.op = "ScalarDataProblem"
    /\ call.args[2].shape = <<2, 2>>
    /\ call.args[2].data = <<<<0, 1>>, <<1, 1>>>>
    /\ nadir = <<<<1, 1>>>>
    /\ ideal = <<<<0, 1>>>>

\* --------------------------------------------------------------- C11
ConstraintValuesAsked == pc = "returned" /\ call.op = "evaluate_constraint_values"

\* C11: evaluate_constraint_values on a ScalarMOProblem or an MOProblem raises
\* NotImplementedError and returns nothing, whatever the state it is called in:
\* with constraints or without, after any evaluate calls and any assignments to
\* objectives, variables and constraints.
C11_ConstraintValuesNotSupported ==
    (ConstraintValuesAsked /\ kind \in Constructors) =>
        /\ outcome.err.type = "NotImplementedError"
        /\ outcome.value = None

\* The call made on a problem that has constraints, after an assignment to
\* constraints has left n_of_constraints behind.
C11_Witness ==
    /\ ConstraintValuesAsked
    /\ kind = "ScalarMOProblem"
    /\ ~IsNone(constraints)
    /\ Len(Get(constraints)) > 0
    /\ n_of_constraints = 0
    /\ outcome.err.type = "NotImplementedError"

\* --------------------------------------------------------------- C12
Attached == Get(constraints)

\* C12: evaluate_constraint_values of a ScalarDataProblem returns None when no
\* constraint is attached; otherwise it returns a matrix with one row for each
\* stored row and one column for each attached constraint, whose entry (r, c) is
\* constraint c evaluated on the stored decision row r and the stored objective
\* row r, one row's pair of vectors at a time. Stated for stored matrices of
\* the same number of rows.
C12_ConstraintValuesRowByRow ==
    (/\ ConstraintValuesAsked
     /\ kind = "ScalarDataProblem"
     /\ Stored.shape[1] = StoredObjectives.shape[1]) =>
        IF Len(Attached) = 0
        THEN Succeeded /\ outcome.value = Some(None)
        ELSE /\ Succeeded
             /\ outcome.value[1].shape = <<Stored.shape[1], Len(Attached)>>
             /\ \A r \in 1..Stored.shape[1], c \in 1..Len(Attached) :
                    LET entry == outcome.value[1].data[r][c] IN
                        /\ entry.g = Attached[c].id
                        /\ entry.x.ndim = 1
                        /\ entry.x.data = Stored.data[r]
                        /\ entry.fx.ndim = 1
                        /\ entry.fx.data = StoredObjectives.data[r]

\* --------------------------------------------------------------- C13
DataConstructorDone == pc \in {"returned", "failed"} /\ call.op = "ScalarDataProblem"

\* C13: the construction of a ScalarDataProblem fails with ProblemError, the
\* error carrying the underlying shape error, whenever the decision array or
\* the objective array has a number of axes other than two (one, or any other
\* number); it succeeds only when both have two; and a failed construction
\* leaves no problem with nadir and ideal set.
C13_OnlyTwoDimensionalData ==
    DataConstructorDone =>
        /\ (call.args[1].ndim # 2 \/ call.args[2].ndim # 2) =>
               /\ pc = "failed"
               /\ outcome.err.type = "ProblemError"
               /\ outcome.err.args = <<"tuple index out of range">>
        /\ pc = "returned" => (call.args[1].ndim = 2 /\ call.args[2].ndim = 2)
        /\ pc = "failed" => (IsNone(nadir) /\ IsNone(ideal))

\* --------------------------------------------------------------- C14
\* What the definition of the problem consists of, as the claim lists it.
Definition ==
    <<variables, objectives, constraints, nadir, ideal, n_of_variables,
      n_of_objectives, n_of_constraints>>

\* The outcome of the call of evaluate just made, were it made once more on
\* the problem as that call left it.
OutcomeOfRepeating ==
    CASE kind = "ScalarMOProblem" ->
            ScalarMOEvaluate(call.args[1], Memory(Uninit, UninitCon))
      [] kind = "MOProblem" -> MOEvaluate(call.args[1], Memory(Uninit, UninitCon))
      [] kind = "ScalarDataProblem" -> DataEvaluate(call.args[1])

Repeatable == (pc = "returned" /\ call.op = "evaluate") => outcome = OutcomeOfRepeating

\* C14: a call of evaluate on a problem of any of the three classes, whether it
\* succeeds or fails, leaves variables, objectives, constraints, nadir, ideal
\* and the three counts as they were, and its outcome is that of the same call
\* made on the problem as it is afterwards, whatever the memory of the new
\* matrices held: no call leaves anything behind that the outcome of a later
\* call depends on.
C14_EvaluateIsStateless ==
    /\ []Repeatable
    /\ [][(pc = "idle" /\ call'.op = "evaluate") => Definition' = Definition]_vars

\* A call of evaluate that failed, on a problem with objectives and variables.
C14_Witness ==
    /\ pc = "returned"
    /\ call.op = "evaluate"
    /\ kind = "MOProblem"
    /\ ~Succeeded
    /\ Len(objectives) > 0
    /\ Len(variables) > 0
    /\ outcome = OutcomeOfRepeating

\* --------------------------------------------------------------- C15
\* C15: in every state of a ScalarMOProblem or an MOProblem, after its
\* construction and after any evaluate calls and any assignments to objectives,
\* variables and constraints, n_of_objectives is the sum of the arities of the
\* objectives it has, n_of_variables the number of the variables it has, and
\* n_of_constraints the number of the constraints it has (0 for None).
C15_CountsFollowTheLists ==
    kind \in Constructors =>
        /\ n_of_objectives = Cardinality(Slots(objectives))
        /\ n_of_variables = Len(variables)
        /\ n_of_constraints = (IF constraints = <<>> THEN 0 ELSE Len(constraints[1]))

\* --------------------------------------------------------------- C16
\* C16: in every state of a ScalarDataProblem, after its construction and after
\* any calls of evaluate, evaluate_constraint_values and get_variable_bounds
\* and any attribute assignments, the stored decision matrix and the stored
\* objective matrix have the same number of rows.
C16_StoredRowsAligned ==
    kind = "ScalarDataProblem" => Stored.shape[1] = StoredObjectives.shape[1]

\* --------------------------------------------------------------- C17
\* C17: after a successful call of evaluate on a ScalarMOProblem or an
\* MOProblem, the attribute decision_vectors holds the batch just evaluated (as
\* given, or as the one-row batch a single vector is read as) and the attribute
\* objective_vectors the objective matrix the call returned.
C17_LastBatchKept ==
    (pc = "returned" /\ call.op = "evaluate" /\ kind \in Constructors /\ Succeeded) =>
        /\ decision_vectors \in {Some(call.args[1]), Some(Batch)}
        /\ objective_vectors = Some(outcome.value[1][1])
====
